---------------------------- MODULE Spec2Model ----------------------------
(***************************************************************************)
(* Model of src/src/agents.py: the research pipeline                       *)
(*   Investigador.buscar -> Redactor.generar_resumen ->                    *)
(*   Revisor.evaluar_texto -> rewrite -> assembly   (Coordinator.run).     *)
(*                                                                         *)
(* Text.  A Python str is a sequence of symbols.  A symbol is either one   *)
(* whitespace character (SP, NL) or a run of non-whitespace characters.    *)
(* A word, as str.split() sees it, is a maximal run of non-whitespace      *)
(* symbols.  Fixed phrases of the program that no code path ever splits,   *)
(* slices or searches are kept as one symbol.  Where the program slices    *)
(* by character count ([:80], [:1000]) the inputs are built of symbols     *)
(* that stand for exactly one character.  Symbols are written in ASCII:    *)
(* accents of the program's Spanish literals are dropped and its bullet    *)
(* character is written "*".                                               *)
(*                                                                         *)
(* Values.  A Python value is a record [t, s, n, items]: t is the type the *)
(* program tests with isinstance, s the text of a str, n the number of an  *)
(* int, items the entries [k, x] of a dict (key and value, in insertion    *)
(* order) or of a list (k unused).                                         *)
(***************************************************************************)
EXTENDS Integers, Sequences, FiniteSets, TLC

VARIABLES
    pc,            \* position of Coordinator.run / of the function under study
    top_k,         \* Investigador.top_k (set by Investigador.__init__)
    run_top_k,     \* the top_k argument of Coordinator.run
    query,         \* the query argument
    topic,         \* the topic argument
    raw,           \* outcome of search_tool.run(query)
    sources_list,  \* Coordinator.run: sources_list
    sum_out,       \* outcome of client.summarization in generar_resumen
    fb_out,        \* outcome of client.text_generation in generar_resumen
    rw_out,        \* outcome of client.text_generation in Coordinator.run
    draft,         \* Coordinator.run: draft
    review,        \* Coordinator.run: review
    final_text,    \* Coordinator.run: final_text (a Python value)
    result,        \* what Coordinator.run / the function under study returned
    error,         \* str(e) of the exception that escaped Coordinator.run
    calls          \* the calls made so far, in order, each with its argument

vars == <<pc, top_k, run_top_k, query, topic, raw, sum_out, fb_out, rw_out,
          sources_list, draft, review, final_text, result, error, calls>>

---------------------------------------------------------------------------
(* Bounds of the model *)

\* largest Investigador.top_k / run top_k tried
MaxTopK == 3
\* longest raw search result list tried
MaxItems == 3
\* most lines of a raw search result string tried
MaxLines == 2

(* Constants of the program *)

TitleCut == 80
SnippetCut == 1000
TitleMaxWords == 10
ShortWords == 350
LongWords == 700
LongSentence == 80

---------------------------------------------------------------------------
(* Python text *)

SP == " "
NL == "\n"

IsSpace(c) == c \in {SP, NL}

MinOf(S) == CHOOSE m \in S : \A n \in S : m <= n
MaxOf(S) == CHOOSE m \in S : \A n \in S : m >= n

\* n copies of the text s
Rep(s, n) == [i \in 1..(n * Len(s)) |-> s[((i - 1) % Len(s)) + 1]]

\* str.strip()
Strip(s) ==
    LET idx == {i \in 1..Len(s) : ~IsSpace(s[i])}
    IN  IF idx = {} THEN <<>> ELSE SubSeq(s, MinOf(idx), MaxOf(idx))

\* len(str.split())
WordCount(s) ==
    Cardinality({i \in 1..Len(s) : ~IsSpace(s[i]) /\ (i = 1 \/ IsSpace(s[i - 1]))})

\* str.splitlines()
RECURSIVE SplitLines(_)
SplitLines(s) ==
    LET nl == {i \in 1..Len(s) : s[i] = NL}
    IN  IF s = <<>> THEN <<>>
        ELSE IF nl = {} THEN <<s>>
        ELSE LET i == MinOf(nl)
             IN  <<SubSeq(s, 1, i - 1)>> \o SplitLines(SubSeq(s, i + 1, Len(s)))

\* seq[:k], negative k counted from the end
SliceTo(s, k) ==
    IF k >= 0 THEN SubSeq(s, 1, IF k < Len(s) THEN k ELSE Len(s))
    ELSE SubSeq(s, 1, IF Len(s) + k > 0 THEN Len(s) + k ELSE 0)

\* sub in s
Contains(s, sub) ==
    \E i \in 0..(Len(s) - Len(sub)) : \A j \in 1..Len(sub) : s[i + j] = sub[j]

\* the words ws joined by single spaces
Phrase(ws) ==
    [i \in 1..(2 * Len(ws) - 1) |-> IF i % 2 = 1 THEN ws[(i + 1) \div 2] ELSE SP]

\* sep.join(parts)
RECURSIVE Join(_, _)
Join(sep, parts) ==
    IF parts = <<>> THEN <<>>
    ELSE IF Len(parts) = 1 THEN parts[1]
    ELSE parts[1] \o sep \o Join(sep, Tail(parts))

---------------------------------------------------------------------------
(* Python values *)

PyStr(s) == [t |-> "str", s |-> s, n |-> 0, items |-> <<>>]
PyInt(n) == [t |-> "int", s |-> <<>>, n |-> n, items |-> <<>>]
Pair(k, x) == [k |-> k, x |-> x]
PyDict(pairs) == [t |-> "dict", s |-> <<>>, n |-> 0, items |-> pairs]
PyList(xs) ==
    [t |-> "list", s |-> <<>>, n |-> 0, items |-> [i \in 1..Len(xs) |-> Pair("", xs[i])]]
NoValue == [t |-> "none", s |-> <<>>, n |-> 0, items |-> <<>>]

\* the items of a list
ListItems(x) == [i \in 1..Len(x.items) |-> x.items[i].x]

\* k in d
Has(d, k) == \E i \in 1..Len(d.items) : d.items[i].k = k

\* d[k] / d.get(k, default)
Get(d, k, default) ==
    IF Has(d, k) THEN d.items[CHOOSE i \in 1..Len(d.items) : d.items[i].k = k].x
    ELSE default

\* repr() of a str: quotes added, line breaks escaped
ReprStr(s) ==
    <<"'">> \o [i \in 1..Len(s) |-> IF s[i] = NL THEN "\\n" ELSE s[i]] \o <<"'">>

\* str() / repr() of a value
RECURSIVE Repr(_)
Str(x) == IF x.t = "str" THEN x.s ELSE Repr(x)
Repr(x) ==
    CASE x.t = "str" -> ReprStr(x.s)
      [] x.t = "int" -> <<ToString(x.n)>>
      [] x.t = "dict" ->
            <<"{">> \o Join(<<",", SP>>,
                [i \in 1..Len(x.items) |->
                    ReprStr(<<x.items[i].k>>) \o <<":", SP>> \o Repr(x.items[i].x)])
            \o <<"}">>
      [] x.t = "list" ->
            <<"[">> \o Join(<<",", SP>>, [i \in 1..Len(x.items) |-> Repr(x.items[i].x)])
            \o <<"]">>
      [] OTHER -> <<"None">>

\* bool(x)
Truthy(x) ==
    CASE x.t = "str" -> x.s # <<>>
      [] x.t = "int" -> x.n # 0
      [] OTHER -> x.items # <<>>

\* what a collaborator call did: raised an exception with str(e) = msg, or
\* returned the value x
Raises(msg) == [raised |-> TRUE, msg |-> msg, val |-> NoValue]
Returns(x) == [raised |-> FALSE, msg |-> <<>>, val |-> x]

\* what a piece of the program did: let an exception escape, or yielded x
Raised(msg) == [raised |-> TRUE, msg |-> msg, val |-> <<>>]
Returned(x) == [raised |-> FALSE, msg |-> <<>>, val |-> x]

---------------------------------------------------------------------------
(* Investigador *)

EmptyText == PyStr(<<>>)

SourceRecord(title, snippet, url) == [title |-> title, snippet |-> snippet, url |-> url]

\* {"title": "", "snippet": "", "url": ""}
BlankRecord == SourceRecord(EmptyText, EmptyText, EmptyText)

\* any(current.values())
AnyValues(current) ==
    Truthy(current.title) \/ Truthy(current.snippet) \/ Truthy(current.url)

\* symbols whose characters include "http"
HttpSyms == {"http://u1", "http://u2", "(http://u3)"}

\* line.startswith("http") or "http" in line
HasHttp(line) == \E i \in 1..Len(line) : line[i] \in HttpSyms

\* variant of NormalizeMapping: 'snippet' and 'url' read first
NormalizeWrongPriority(item) ==
    SourceRecord(Get(item, "title", EmptyText),
                 Get(item, "snippet", Get(item, "body", EmptyText)),
                 Get(item, "url", Get(item, "link", EmptyText)))

\* a dict entry of a raw result list (lines 56-61)
NormalizeMapping(item) ==
    SourceRecord(Get(item, "title", EmptyText),
                 Get(item, "body", Get(item, "snippet", EmptyText)),
                 Get(item, "link", Get(item, "url", EmptyText)))

\* any other entry of a raw result list (lines 62-64)
NormalizeOther(item) ==
    SourceRecord(PyStr(SliceTo(Str(item), TitleCut)), PyStr(Str(item)), EmptyText)

NormalizeItem(item) ==
    IF item.t = "dict" THEN NormalizeMapping(item) ELSE NormalizeOther(item)

\* variant of NormalizeList: the last k entries instead of the first
NormalizeListFromEnd(items, k) ==
    LET n == IF k < 0 THEN 0 ELSE IF k < Len(items) THEN k ELSE Len(items)
    IN  [i \in 1..n |-> NormalizeItem(items[Len(items) - n + i])]

\* the loop over raw[: self.top_k] (lines 54-65)
NormalizeList(items, k) ==
    LET cut == SliceTo(items, k)
    IN  [i \in 1..Len(cut) |-> NormalizeItem(cut[i])]

\* [l.strip() for l in str(raw).splitlines() if l.strip()]
RECURSIVE StrippedLines(_)
StrippedLines(ls) ==
    IF ls = <<>> THEN <<>>
    ELSE IF Strip(Head(ls)) = <<>> THEN StrippedLines(Tail(ls))
    ELSE <<Strip(Head(ls))>> \o StrippedLines(Tail(ls))

\* the loop over lines; yields results and current as they stand after it
RECURSIVE ParseLines(_, _, _)
ParseLines(lines, results, current) ==
    IF lines = <<>> THEN [results |-> results, current |-> current]
    ELSE LET line == Head(lines) IN
        IF HasHttp(line)
        THEN IF AnyValues(current)
             THEN ParseLines(Tail(lines), Append(results, current),
                             [BlankRecord EXCEPT !.url = PyStr(line)])
             ELSE ParseLines(Tail(lines), results,
                             [current EXCEPT !.url = PyStr(line)])
        ELSE IF WordCount(line) <= TitleMaxWords /\ ~Truthy(current.title)
        THEN ParseLines(Tail(lines), results, [current EXCEPT !.title = PyStr(line)])
        ELSE ParseLines(Tail(lines), results,
                        [current EXCEPT !.snippet =
                            PyStr(Strip(Str(current.snippet) \o <<SP>> \o line))])

\* the except branch of buscar
ParseError(msg) ==
    <<SourceRecord(PyStr(<<"error">>),
                   PyStr(<<"Error parseo DuckDuckGo:", SP>> \o msg),
                   EmptyText)>>

\* the records of the lines of str(raw) (lines 67-82)
ParsedRecords(rawval) ==
    LET parsed == ParseLines(StrippedLines(SplitLines(Str(rawval))), <<>>, BlankRecord)
    IN  IF AnyValues(parsed.current)
        THEN Append(parsed.results, parsed.current)
        ELSE parsed.results

\* variant of ParseText: the whole raw string as snippet, not raw[:1000]
ParseTextNoCut(rawval, k, q) ==
    LET results == ParsedRecords(rawval)
    IN  IF results # <<>> THEN SliceTo(results, k)
        ELSE IF rawval.t = "str"
        THEN SliceTo(<<SourceRecord(PyStr(q), rawval, EmptyText)>>, k)
        ELSE ParseError(<<"object is not subscriptable">>)

\* the str branch of buscar (lines 67-87); raw[:1000] raises on a value
\* that cannot be sliced
ParseText(rawval, k, q) ==
    LET results == ParsedRecords(rawval)
    IN  IF results # <<>> THEN SliceTo(results, k)
        ELSE IF rawval.t = "str"
        THEN SliceTo(<<SourceRecord(PyStr(q), PyStr(SliceTo(rawval.s, SnippetCut)),
                                    EmptyText)>>, k)
        ELSE ParseError(<<"object is not subscriptable">>)

\* Investigador.buscar: search_tool.run is called before the try block, so
\* what it raises escapes
buscar(outcome, k, q) ==
    IF outcome.raised THEN Raised(outcome.msg)
    ELSE IF outcome.val.t = "list" THEN Returned(NormalizeList(ListItems(outcome.val), k))
    ELSE Returned(ParseText(outcome.val, k, q))

---------------------------------------------------------------------------
(* Redactor *)

\* x.strip() on a value: AttributeError unless x is a str
StripValue(x) ==
    IF x.t = "str" THEN Returned(Strip(x.s))
    ELSE Raised(<<"object has no attribute 'strip'">>)

\* the text of one source as both prompts lay it out
SourceFields(s) == <<Str(s.title), Str(s.snippet), Str(s.url)>>

\* generar_resumen: concatenated
Concatenated(sources) ==
    Join(<<>>, [i \in 1..Len(sources) |->
        LET f == SourceFields(sources[i])
        IN  f[1] \o <<NL>> \o f[2] \o <<NL>> \o f[3] \o <<NL, NL>>])

\* Redactor._build_prompt
build_prompt(tp, sources) ==
    <<"Genera un resumen en espanol de aprox. 400-600 palabras en formato Markdown sobre:", SP>>
    \o tp \o <<NL, NL>>
    \o <<"Usa las siguientes fuentes (titulo / snippet / url). Cita con [numero] cuando correspondan.",
         NL, NL>>
    \o Join(<<>>, [i \in 1..Len(sources) |->
        LET f == SourceFields(sources[i])
        IN  <<"[", ToString(i), "]", SP, "Titulo:", SP>> \o f[1]
            \o <<NL, "Snippet:", SP>> \o f[2]
            \o <<NL, "URL:", SP>> \o f[3] \o <<NL, NL>>])
    \o <<"Estructura (Markdown):", NL, "# Introduccion", NL, "## Hallazgos clave", NL,
         "## Desafios eticos y tecnicos", NL, "## Conclusion", NL, NL,
         "Manten un tono academico y claro. Si una afirmacion no esta en las fuentes, marca [sin cita].">>

\* first key of keys that resp has, <<>> if none
RECURSIVE FirstKey(_, _)
FirstKey(resp, keys) ==
    IF keys = <<>> THEN <<>>
    ELSE IF Has(resp, Head(keys)) THEN <<Head(keys)>>
    ELSE FirstKey(resp, Tail(keys))

GenerationKeys == <<"generated_text", "text", "output">>

\* variant of SummarizationAttempt: summary_text returned without strip()
SummarizationUnstripped(outcome) ==
    IF outcome.raised THEN Raised(outcome.msg)
    ELSE LET resp == outcome.val
         IN  IF resp.t = "dict" /\ Has(resp, "summary_text")
             THEN LET x == Get(resp, "summary_text", EmptyText)
                  IN  IF x.t = "str" THEN Returned(x.s) ELSE StripValue(x)
             ELSE Returned(Strip(Str(resp)))

\* variant of SummarizationAttempt: a failed call answered with the
\* diagnostic draft at once, no fallback call
SummarizationSwallow(outcome) ==
    IF outcome.raised
    THEN Returned(<<"Error", SP, "en", SP, "generacion", SP, "de", SP, "resumen:", SP>>
                  \o outcome.msg)
    ELSE LET resp == outcome.val
         IN  IF resp.t = "dict" /\ Has(resp, "summary_text")
             THEN StripValue(Get(resp, "summary_text", EmptyText))
             ELSE Returned(Strip(Str(resp)))

\* generar_resumen, lines 130-139: the summarization attempt; what it
\* raises is caught at line 140
SummarizationAttempt(outcome) ==
    IF outcome.raised THEN Raised(outcome.msg)
    ELSE LET resp == outcome.val
         IN  IF resp.t = "dict" /\ Has(resp, "summary_text")
             THEN StripValue(Get(resp, "summary_text", EmptyText))
             ELSE Returned(Strip(Str(resp)))

\* generar_resumen, lines 142-155: the text_generation fallback
FallbackAttempt(outcome) ==
    IF outcome.raised THEN Raised(outcome.msg)
    ELSE LET resp2 == outcome.val
         IN  IF resp2.t = "dict"
             THEN LET k == FirstKey(resp2, GenerationKeys)
                  IN  IF k # <<>> THEN StripValue(Get(resp2, k[1], EmptyText))
                      ELSE Returned(Strip(Str(resp2)))
             ELSE IF resp2.t = "list" /\ Len(resp2.items) > 0
             THEN LET first == resp2.items[1].x
                  IN  IF first.t = "dict" /\ Has(first, "generated_text")
                      THEN StripValue(Get(first, "generated_text", EmptyText))
                      ELSE Returned(Strip(Str(first)))
             ELSE Returned(Strip(Str(resp2)))

\* generar_resumen, lines 157-158: the outer except
ErrorDraft(msg) == Phrase(<<"Error", "en", "generacion", "de", "resumen:">>) \o <<SP>> \o msg

\* variant of FallbackDraft: no outer except, the failure escapes
FallbackDraftRaising(outcome) == FallbackAttempt(outcome)

\* what generar_resumen returns once the fallback call has been made

FallbackDraft(outcome) ==
    LET r == FallbackAttempt(outcome)
    IN  IF r.raised THEN Returned(ErrorDraft(r.msg)) ELSE r

---------------------------------------------------------------------------
(* Revisor *)

\* str.lower() on the symbols of the model that have capitals to fold
LowerSym(c) ==
    CASE c = "Sin" -> "sin"
      [] c = "SIN" -> "sin"
      [] c = "Cita" -> "cita"
      [] OTHER -> c

Lower(s) == [i \in 1..Len(s) |-> LowerSym(s[i])]

\* some piece of summary.split(".") has more than LongSentence words
HasLongSentence(summary) ==
    LET cuts == {0, Len(summary) + 1} \cup {i \in 1..Len(summary) : summary[i] = "."}
    IN  \E a \in cuts : \E b \in cuts :
            /\ a < b
            /\ \A c \in cuts : ~(a < c /\ c < b)
            /\ WordCount(SubSeq(summary, a + 1, b - 1)) > LongSentence

\* Revisor.evaluar_texto
evaluar_texto(summary) ==
    LET words == WordCount(summary)
        structure ==
            IF \/ Contains(summary, <<"#", SP, "Introduccion">>)
               \/ Contains(summary, <<"#", "#", SP, "Hallazgos">>)
            THEN <<"Estructura: Las secciones principales estan presentes.">>
            ELSE <<"Estructura: Falta alguna seccion esperada (introduccion/hallazgos/conclusion).">>
        length ==
            IF words < ShortWords
            THEN <<"Longitud: corto (", ToString(words), " palabras). Objetivo: 400-600 palabras.">>
            ELSE IF words > LongWords
            THEN <<"Longitud: largo (", ToString(words),
                   " palabras). Recomendar acotar a 400-600 palabras.">>
            ELSE <<"Longitud: adecuada (", ToString(words), " palabras).">>
        cites ==
            IF \/ Contains(Lower(summary), <<"sin", SP, "cita">>)
               \/ Contains(Lower(summary), <<"[", "sin", SP, "cita", "]">>)
            THEN <<"Citas: Se detectaron marcadores de afirmaciones sin cita. Anadir referencias especificas donde proceda.">>
            ELSE <<"Citas: No se detectaron marcadores obvios de 'sin cita' - verificar manualmente contra las fuentes.">>
        coherence ==
            IF HasLongSentence(summary)
            THEN <<"Coherencia: Hay oraciones muy largas. Dividelas para mejorar claridad.">>
            ELSE <<"Coherencia: Buen nivel de claridad en oraciones.">>
        suggestions == <<
            <<"1) Anadir al menos 2 citas directas a las fuentes enumeradas para las afirmaciones clave.">>,
            <<"2) Revisar secciones 'Desafios eticos y tecnicos' para incluir un ejemplo concreto (por ejemplo, un caso de uso clinico).">>,
            <<"3) Comprobar datos numericos en las URLs originales para evitar inexactitudes.">> >>
    IN  <<"*", SP>> \o Join(<<NL, "*", SP>>, <<structure, length, cites, coherence>>)
        \o <<NL, NL, "Sugerencias:", NL>> \o Join(<<NL>>, suggestions)

---------------------------------------------------------------------------
(* Coordinator *)

\* "\n\n### Ajustes sugeridos:\n"
AdjustHeader == <<NL, NL, "### Ajustes sugeridos:", NL>>

\* Coordinator.run, lines 243-248
RewritePrompt(d, r) ==
    <<"REQUERIMIENTO: Reescribe el resumen incorporando las siguientes sugerencias del revisor. ",
      "Manten formato Markdown y aprox. 400-600 palabras.", NL, NL, "BORRADOR:", NL>>
    \o d \o <<NL, NL, "FEEDBACK:", NL>> \o r \o <<NL, NL>>

\* variant of RewriteText: the fallback keeps the review and drops the draft
RewriteTextReviewOnly(outcome, d, r) ==
    IF outcome.raised THEN PyStr(AdjustHeader \o r)
    ELSE PyStr(Str(outcome.val))

\* Coordinator.run, lines 250-274: final_text, a Python value
RewriteText(outcome, d, r) ==
    IF outcome.raised THEN PyStr(d \o AdjustHeader \o r)
    ELSE LET resp == outcome.val
         IN  IF resp.t = "dict"
             THEN LET k == FirstKey(resp, GenerationKeys)
                      found == IF k # <<>> THEN Get(resp, k[1], EmptyText) ELSE EmptyText
                  IN  IF Truthy(found) THEN found ELSE PyStr(Str(resp))
             ELSE IF resp.t = "list" /\ Len(resp.items) > 0
             THEN LET first == resp.items[1].x
                  IN  IF first.t = "dict" /\ Has(first, "generated_text")
                      THEN Get(first, "generated_text", EmptyText)
                      ELSE PyStr(Str(first))
             ELSE PyStr(Str(resp))

\* Coordinator.run, lines 276-285: full; str + non-str raises TypeError
FullText(tp, sources, ft, r) ==
    <<"# Resumen final -", SP>> \o tp \o <<NL, NL, "## Fuentes (resumen):", NL>>
    \o Join(<<>>, [i \in 1..Len(sources) |->
        LET f == SourceFields(sources[i])
        IN  <<ToString(i), ".", SP>> \o f[1] \o <<SP, "-", SP>> \o f[3] \o <<NL, NL>>
            \o <<">", SP>> \o f[2] \o <<NL, NL>>])
    \o <<NL, "## Resumen Final", NL, NL>> \o ft \o <<NL, NL>>
    \o <<"## Feedback del Revisor", NL, NL>> \o r \o <<NL>>

\* Coordinator.run, lines 276-292: the returned dict
PipelineResult(tp, sources, d, r, ft) ==
    IF ft.t # "str" THEN Raised(<<"can only concatenate str to str">>)
    ELSE Returned([sources |-> sources, draft |-> d, review |-> r,
                   final |-> FullText(tp, sources, ft.s, r)])

\* a call on record: its text argument, or its list of sources
CallText(op, text) == [op |-> op, text |-> text, sources |-> <<>>]
CallSources(op, sources) == [op |-> op, text |-> <<>>, sources |-> sources]

---------------------------------------------------------------------------
(* Inputs *)

NotCalled == Returns(NoValue)
NoResult == [sources |-> <<>>, draft |-> <<>>, review |-> <<>>, final |-> <<>>]

Words(n) == Phrase([i \in 1..n |-> "w"])

Topic == Phrase(<<"bias", "in", "LLMs">>)
Queries == {Phrase(<<"bias", "in", "LLMs">>), Phrase(<<"LLM", "bias", "site:arxiv.org">>)}

TextShort == <<"Intro", ".", SP, "Findings", ".">>
TextPadded == <<SP, NL>> \o TextShort \o <<SP, NL>>
\* 452 words under a heading, sentences of 50 words
TextAdequate ==
    <<"#", SP, "Introduccion", NL>> \o Rep(Words(50) \o <<".", SP>>, 9)
\* one sentence of 81 words that carries the missing-citation marker
TextLongSentence == Words(LongSentence + 1) \o <<SP, "[", "Sin", SP, "cita", "]", ".">>
\* 702 words in sentences of 100
TextTooLong == <<"#", "#", SP, "Hallazgos", NL>> \o Rep(Words(100) \o <<".", NL>>, 7)

DraftTexts == {<<>>, TextShort, TextPadded, TextAdequate, TextLongSentence, TextTooLong}

Dict1(k, x) == PyDict(<<Pair(k, x)>>)
Dict2(k1, x1, k2, x2) == PyDict(<<Pair(k1, x1), Pair(k2, x2)>>)

SummarizationOutcomes ==
    {Raises(<<"503 Service Unavailable">>)}
    \cup {Returns(Dict1("summary_text", PyStr(x))) : x \in DraftTexts}
    \cup {Returns(x) : x \in {
            Dict1("generated_text", PyStr(TextPadded)),
            Dict2("generated_text", PyStr(TextShort), "summary_text", PyStr(TextPadded)),
            Dict1("summary_text", PyInt(5)),
            PyList(<<Dict1("summary_text", PyStr(TextPadded))>>),
            PyList(<<Dict1("generated_text", PyStr(TextPadded))>>),
            PyStr(TextPadded)}}

GenerationResponses ==
    {Dict1("generated_text", PyStr(TextShort)),
     Dict1("generated_text", PyStr(TextPadded)),
     Dict1("generated_text", PyStr(<<>>)),
     Dict1("generated_text", PyInt(5)),
     Dict1("text", PyStr(TextPadded)),
     Dict1("output", PyStr(TextPadded)),
     Dict1("summary_text", PyStr(TextPadded)),
     Dict2("text", PyStr(TextShort), "generated_text", PyStr(TextPadded)),
     PyList(<<Dict1("generated_text", PyStr(TextPadded))>>),
     PyList(<<Dict1("generated_text", PyInt(5))>>),
     PyList(<<Dict1("summary_text", PyStr(TextPadded))>>),
     PyList(<<PyStr(TextPadded)>>),
     PyList(<<>>),
     PyStr(TextPadded)}

GenerationOutcomes ==
    {Raises(<<"429 Too Many Requests">>)} \cup {Returns(x) : x \in GenerationResponses}

\* entries of a raw search result list
MappingA == PyDict(<<Pair("title", PyStr(<<"A">>)), Pair("body", PyStr(<<"foo">>)),
                      Pair("link", PyStr(<<"u1">>))>>)
MappingB == PyDict(<<Pair("title", PyStr(<<"B">>)), Pair("snippet", PyStr(<<"bar">>)),
                      Pair("url", PyStr(<<"u2">>))>>)
MappingBoth == PyDict(<<Pair("snippet", PyStr(<<"s">>)), Pair("body", PyStr(<<"b">>)),
                         Pair("url", PyStr(<<"u">>)), Pair("link", PyStr(<<"l">>))>>)
MappingEmpty == PyDict(<<>>)
ItemText == PyStr(Phrase(<<"plain", "text", "hit">>))
ItemLongText == PyStr(Rep(<<"x">>, TitleCut + 1))

Mappings == {MappingA, MappingB, MappingBoth, MappingEmpty}
Items == Mappings \cup {ItemText, ItemLongText}

SeqsUpTo(S, n) == UNION {[1..m -> S] : m \in 0..n}

\* lines of a raw search result string
LineTemplates ==
    {<<>>, <<SP, SP>>, <<SP>> \o Phrase(<<"a", "b">>) \o <<SP>>, Words(TitleMaxWords),
     Words(TitleMaxWords + 1), Phrase(<<"see", "http://u1">>)}

RawTexts ==
    {Join(<<NL>>, ls) : ls \in SeqsUpTo(LineTemplates, MaxLines)}
    \cup {Rep(<<SP>>, SnippetCut + 1)}

SearchFailures == {Raises(<<"ConnectionError: timed out">>), Raises(<<"RatelimitException">>)}

\* every outcome of search_tool.run tried on buscar alone
AllSearchOutcomes ==
    SearchFailures
    \cup {Returns(PyStr(x)) : x \in RawTexts}
    \cup {Returns(PyList(xs)) : xs \in SeqsUpTo(Items, MaxItems)}
    \cup {Returns(MappingA), Returns(PyInt(5))}

\* the outcomes of search_tool.run tried in whole runs
RunSearchOutcomes ==
    {Raises(<<"ConnectionError: timed out">>),
     Returns(PyList(<<MappingA, MappingB>>)),
     Returns(PyList(<<ItemText, MappingBoth, MappingA, MappingB>>)),
     Returns(PyStr(Words(TitleMaxWords + 1) \o <<NL>> \o Phrase(<<"see", "http://u1">>))),
     Returns(PyStr(<<>>))}

---------------------------------------------------------------------------
(* Coordinator.run as a state machine *)

Init ==
    /\ pc = "start"
    /\ top_k \in 0..MaxTopK
    /\ run_top_k \in {0, MaxTopK}
    /\ query \in {Phrase(<<"LLM", "bias", "site:arxiv.org">>)}
    /\ topic = Topic
    /\ raw = NotCalled /\ sum_out = NotCalled /\ fb_out = NotCalled /\ rw_out = NotCalled
    /\ sources_list = <<>> /\ draft = <<>> /\ review = <<>>
    /\ final_text = NoValue /\ result = NoResult /\ error = <<>>
    /\ calls = <<>>

\* line 226: self.investigador.buscar(query)
BuscarStep(outcomes) ==
    /\ pc = "start"
    /\ \E o \in outcomes :
        LET r == buscar(o, top_k, query)
        IN  /\ raw' = o
            /\ calls' = Append(calls, CallText("search_tool.run", query))
            /\ IF r.raised
               THEN pc' = "raised" /\ error' = r.msg /\ sources_list' = sources_list
               ELSE pc' = "sources_fetched" /\ sources_list' = r.val /\ error' = error
    /\ UNCHANGED <<top_k, run_top_k, query, topic, sum_out, fb_out, rw_out,
                   draft, review, final_text, result>>

CallBuscar == BuscarStep(RunSearchOutcomes)

\* line 237, generar_resumen up to the summarization attempt
CallSummarization ==
    /\ pc = "sources_fetched"
    /\ \E o \in SummarizationOutcomes :
        LET r == SummarizationAttempt(o)
        IN  /\ sum_out' = o
            /\ calls' = calls \o <<CallSources("generar_resumen", sources_list),
                                   CallText("summarization", Concatenated(sources_list))>>
            /\ IF r.raised
               THEN pc' = "fallback" /\ draft' = draft
               ELSE pc' = "drafted" /\ draft' = r.val
    /\ UNCHANGED <<top_k, run_top_k, query, topic, raw, fb_out, rw_out,
                   sources_list, review, final_text, result, error>>

\* generar_resumen, the fallback and the outer except
CallFallback ==
    /\ pc = "fallback"
    /\ \E o \in GenerationOutcomes :
        LET r == FallbackDraft(o)
        IN  /\ fb_out' = o
            /\ calls' = Append(calls, CallText("text_generation", build_prompt(topic, sources_list)))
            /\ IF r.raised
               THEN pc' = "raised" /\ error' = r.msg /\ draft' = draft
               ELSE pc' = "drafted" /\ draft' = r.val /\ error' = error
    /\ UNCHANGED <<top_k, run_top_k, query, topic, raw, sum_out, rw_out,
                   sources_list, review, final_text, result>>

\* line 240: self.revisor.evaluar_texto(draft, sources_list)
CallRevisor ==
    /\ pc = "drafted"
    /\ review' = evaluar_texto(draft)
    /\ calls' = Append(calls, CallText("evaluar_texto", draft))
    /\ pc' = "reviewed"
    /\ UNCHANGED <<top_k, run_top_k, query, topic, raw, sum_out, fb_out, rw_out,
                   sources_list, draft, final_text, result, error>>

\* lines 243-274: the rewrite call and its fallback
CallRewrite ==
    /\ pc = "reviewed"
    /\ \E o \in GenerationOutcomes :
        /\ rw_out' = o
        /\ calls' = Append(calls, CallText("text_generation", RewritePrompt(draft, review)))
        /\ final_text' = RewriteText(o, draft, review)
    /\ pc' = "finalized"
    /\ UNCHANGED <<top_k, run_top_k, query, topic, raw, sum_out, fb_out,
                   sources_list, draft, review, result, error>>

\* lines 276-292: assembly of the returned dict
Assemble ==
    /\ pc = "finalized"
    /\ LET r == PipelineResult(topic, sources_list, draft, review, final_text)
       IN  IF r.raised
           THEN pc' = "raised" /\ error' = r.msg /\ result' = result
           ELSE pc' = "done" /\ result' = r.val /\ error' = error
    /\ UNCHANGED <<top_k, run_top_k, query, topic, raw, sum_out, fb_out, rw_out,
                   sources_list, draft, review, final_text, calls>>

Next ==
    \/ CallBuscar
    \/ CallSummarization
    \/ CallFallback
    \/ CallRevisor
    \/ CallRewrite
    \/ Assemble

Spec == Init /\ [][Next]_vars

---------------------------------------------------------------------------
(* Investigador.buscar on its own *)

InitBuscar ==
    /\ pc = "start"
    /\ top_k \in (-1)..MaxTopK
    /\ run_top_k = 0
    /\ query \in Queries
    /\ topic = Topic
    /\ raw = NotCalled /\ sum_out = NotCalled /\ fb_out = NotCalled /\ rw_out = NotCalled
    /\ sources_list = <<>> /\ draft = <<>> /\ review = <<>>
    /\ final_text = NoValue /\ result = NoResult /\ error = <<>>
    /\ calls = <<>>

BuscarAlone == BuscarStep(AllSearchOutcomes)

SpecBuscar == InitBuscar /\ [][BuscarAlone]_vars

---------------------------------------------------------------------------
(* Vocabulary of the properties *)

Ops == [i \in 1..Len(calls) |-> calls[i].op]

Count(op) == Cardinality({i \in 1..Len(calls) : calls[i].op = op})

\* the search call has been made and has returned
Fetched == pc # "start" /\ ~raw.raised

\* generar_resumen has returned a draft
Drafted == pc \in {"drafted", "reviewed", "finalized", "done"} \/ (pc = "raised" /\ rw_out # NotCalled)

\* the value is a mapping that holds a non-str under key k
NonStrUnder(x, k) == x.t = "dict" /\ Has(x, k) /\ Get(x, k, EmptyText).t # "str"

\* the summarization attempt failed: the call raised, or summary_text cannot be stripped
SumFailed == sum_out.raised \/ NonStrUnder(sum_out.val, "summary_text")

\* the fallback attempt failed: the call raised, or the text found cannot be stripped
FbFailed ==
    \/ fb_out.raised
    \/ \E k \in {"generated_text", "text", "output"} :
          /\ NonStrUnder(fb_out.val, k)
          /\ \A j \in {"generated_text", "text", "output"} :
                Has(fb_out.val, j) => Get(fb_out.val, j, EmptyText).t # "str"
    \/ /\ fb_out.val.t = "list" /\ Len(fb_out.val.items) > 0
       /\ NonStrUnder(fb_out.val.items[1].x, "generated_text")

AllBlank(s) == \A i \in 1..Len(s) : IsSpace(s[i])

\* X for a response {"summary_text": X}, {"generated_text": X} or a one-element
\* list wrapping either, as <<key, X, wrapped>>; <<>> for any other response
Shaped(resp) ==
    LET wrapped == resp.t = "list" /\ Len(resp.items) = 1
        d == IF wrapped THEN resp.items[1].x ELSE resp
    IN  IF /\ d.t = "dict" /\ Len(d.items) = 1
           /\ d.items[1].k \in {"summary_text", "generated_text"}
           /\ d.items[1].x.t = "str"
        THEN <<d.items[1].k, d.items[1].x.s, IF wrapped THEN "list" ELSE "dict">>
        ELSE <<>>

\* the response the draft was extracted from
DraftSource == IF fb_out # NotCalled THEN fb_out ELSE sum_out

---------------------------------------------------------------------------
(* C1: whatever the collaborators do, Coordinator.run returns a            *)
(* PipelineResult; it never ends with an exception that a collaborator     *)
(* raised.                                                                 *)
C1_NeverRaisesOnCollaboratorFailure ==
    ~(pc = "raised" /\ \E o \in {raw, sum_out, fb_out, rw_out} : o.raised /\ error = o.msg)

(* C2: when search_tool.run raises, buscar does not raise and returns      *)
(* exactly one record whose snippet contains the failure description.      *)
C2_SearchFailureBecomesOneRecord ==
    (pc # "start" /\ raw.raised) =>
        /\ pc = "sources_fetched"
        /\ Len(sources_list) = 1
        /\ Contains(Str(sources_list[1].snippet), raw.msg)

(* C3, as claimed: a run that returns has made one Source Provider call,   *)
(* one Review call and exactly two generation calls.                       *)
C3_ExactlyTwoGenerationCalls ==
    pc = "done" =>
        /\ Count("search_tool.run") = 1
        /\ Count("evaluar_texto") = 1
        /\ Count("summarization") + Count("text_generation") = 2

(* C3, amended: the calls of a run are, in this order and none repeated:   *)
(* search, generar_resumen with its summarization call, the fallback       *)
(* text_generation call exactly when the summarization attempt failed,     *)
(* evaluar_texto, the rewrite text_generation call.  A run that returns    *)
(* has made them all: one search, one review, two or three generation      *)
(* calls.  A run that raises stopped after the search or at assembly.      *)
C3_SinglePassCallOrder ==
    LET search   == <<"search_tool.run">>
        drafting == <<"generar_resumen", "summarization">>
        fallback == IF SumFailed THEN <<"text_generation">> ELSE <<>>
        all      == search \o drafting \o fallback \o <<"evaluar_texto", "text_generation">>
    IN  /\ pc = "start" => Ops = <<>>
        /\ pc = "sources_fetched" => Ops = search
        /\ pc = "fallback" => SumFailed /\ Ops = search \o drafting
        /\ pc = "drafted" => Ops = search \o drafting \o fallback
        /\ pc = "reviewed" => Ops = search \o drafting \o fallback \o <<"evaluar_texto">>
        /\ pc \in {"finalized", "done"} => Ops = all
        /\ pc = "raised" => Ops = search \/ Ops = all
        /\ pc = "done" =>
            /\ Count("search_tool.run") = 1
            /\ Count("evaluar_texto") = 1
            /\ Count("summarization") = 1
            /\ Count("text_generation") = IF SumFailed THEN 2 ELSE 1

C3_ReturnedAfterThreeGenerationCalls ==
    pc = "done" /\ Count("summarization") + Count("text_generation") = 3

(* C4, as claimed: if the rewrite call fails, the final value of the       *)
(* PipelineResult equals draft + header + review.                          *)
C4_FinalEqualsDraftHeaderReview ==
    (pc = "done" /\ rw_out.raised) =>
        result.final = draft \o <<NL, NL, "### Ajustes sugeridos:", NL>> \o review

(* C4, amended: if the rewrite call fails, finalization does not raise,    *)
(* final_text is draft + header + review, and the final value of the       *)
(* PipelineResult is the assembled document, which contains that text      *)
(* (and so the review) but is longer than it.                              *)
C4_FinalContainsDraftHeaderReview ==
    rw_out.raised =>
        LET fallback == draft \o <<NL, NL, "### Ajustes sugeridos:", NL>> \o review
        IN  /\ pc \in {"finalized", "done"}
            /\ final_text = PyStr(fallback)
            /\ pc = "done" =>
                /\ Contains(result.final, fallback)
                /\ Len(result.final) > Len(fallback)
                /\ result.draft = draft /\ result.review = review

C4_ReturnedAfterRewriteFailure ==
    pc = "done" /\ rw_out.raised /\ draft # <<>> /\ Len(sources_list) = 2

(* C5, as claimed: whenever a generation call fails during                 *)
(* generar_resumen, the draft returned begins with "Error".                *)
C5_AnyGenerationFailureGivesErrorDraft ==
    (Drafted /\ (sum_out.raised \/ fb_out.raised)) =>
        (draft # <<>> /\ Head(draft) = "Error")

(* C5, amended: whenever the summarization attempt and the fallback        *)
(* text_generation attempt both fail, generar_resumen does not raise and   *)
(* returns a string beginning with "Error" as the draft; run then calls    *)
(* evaluar_texto on that string and goes on to finalization.               *)
C5_BothFailuresGiveErrorDraft ==
    (fb_out # NotCalled /\ FbFailed) =>
        /\ SumFailed
        /\ Drafted
        /\ draft # <<>> /\ Head(draft) = "Error"
        /\ Contains(draft, IF fb_out.raised THEN fb_out.msg ELSE <<>>)
        /\ pc # "drafted" =>
            /\ calls[5] = CallText("evaluar_texto", draft)
            /\ review = evaluar_texto(draft)

C5_FinalizedWithErrorDraft ==
    pc = "finalized" /\ sum_out.raised /\ fb_out.raised /\ Head(draft) = "Error"

C7_ExtractionReturnsExactlyX ==
    (Drafted /\ ~DraftSource.raised /\ Shaped(DraftSource.val) # <<>>) =>
        draft = Shaped(DraftSource.val)[2]

(* C7, amended: the summarization response {"summary_text": X} gives       *)
(* X.strip(); the fallback response {"generated_text": X}, bare or as the  *)
(* first element of a list, gives X.strip().  The other listed shapes are  *)
(* not unwrapped: a summarization response gives the stripped str() of     *)
(* the whole response, a fallback response that of the mapping.            *)
C7_ExtractionByCallAndShape ==
    (Drafted /\ ~DraftSource.raised /\ Shaped(DraftSource.val) # <<>>) =>
        LET resp == DraftSource.val
            sh   == Shaped(resp)
            d    == IF sh[3] = "list" THEN resp.items[1].x ELSE resp
        IN  IF fb_out = NotCalled
            THEN IF sh[1] = "summary_text" /\ sh[3] = "dict"
                 THEN draft = Strip(sh[2])
                 ELSE draft = Strip(Repr(resp))
            ELSE IF sh[1] = "generated_text"
                 THEN draft = Strip(sh[2])
                 ELSE draft = Strip(Repr(d))

C7_DraftedFromPaddedSummary ==
    /\ pc = "drafted" /\ fb_out = NotCalled
    /\ Shaped(sum_out.val) # <<>> /\ Shaped(sum_out.val)[1] = "summary_text"
    /\ Shaped(sum_out.val)[2] # Strip(Shaped(sum_out.val)[2])
    /\ draft # <<>>

(* C8, as claimed: for a mapping entry, snippet is read from 'snippet'     *)
(* and from 'body' only when 'snippet' is absent, url from 'url' and from  *)
(* 'link' only when 'url' is absent, title from 'title'; a missing field   *)
(* is the empty string.                                                    *)
C8_SnippetAndUrlFirst ==
    (Fetched /\ raw.val.t = "list") =>
        \A i \in 1..Len(sources_list) :
            LET item == raw.val.items[i].x
            IN  item.t = "dict" =>
                /\ sources_list[i].title = Get(item, "title", EmptyText)
                /\ sources_list[i].snippet =
                      IF Has(item, "snippet") THEN Get(item, "snippet", EmptyText)
                      ELSE Get(item, "body", EmptyText)
                /\ sources_list[i].url =
                      IF Has(item, "url") THEN Get(item, "url", EmptyText)
                      ELSE Get(item, "link", EmptyText)

(* C8, amended: for a mapping entry, snippet is read from 'body' and from  *)
(* 'snippet' only when 'body' is absent, url from 'link' and from 'url'    *)
(* only when 'link' is absent, title from 'title'; a missing field is the  *)
(* empty string, so all three fields are always present.                   *)
C8_BodyAndLinkFirst ==
    (Fetched /\ raw.val.t = "list") =>
        \A i \in 1..Len(sources_list) :
            LET item == raw.val.items[i].x
            IN  item.t = "dict" =>
                /\ DOMAIN sources_list[i] = {"title", "snippet", "url"}
                /\ sources_list[i].title =
                      IF Has(item, "title") THEN Get(item, "title", NoValue) ELSE PyStr(<<>>)
                /\ sources_list[i].snippet =
                      IF Has(item, "body") THEN Get(item, "body", NoValue)
                      ELSE IF Has(item, "snippet") THEN Get(item, "snippet", NoValue)
                      ELSE PyStr(<<>>)
                /\ sources_list[i].url =
                      IF Has(item, "link") THEN Get(item, "link", NoValue)
                      ELSE IF Has(item, "url") THEN Get(item, "url", NoValue)
                      ELSE PyStr(<<>>)

C8_MappingWithBothKeysFetched ==
    /\ Fetched /\ raw.val.t = "list" /\ Len(sources_list) >= 2
    /\ LET item == raw.val.items[2].x
       IN  /\ item.t = "dict"
           /\ Has(item, "body") /\ Has(item, "snippet") /\ Has(item, "url") /\ Has(item, "link")
           /\ Get(item, "body", EmptyText) # Get(item, "snippet", EmptyText)

(* C9: the sources of a run are at most as many as the top_k the caller    *)
(* gave to Coordinator.run; with top_k = 0 there are none and the          *)
(* drafting stage receives an empty list.                                  *)
C9_RunTopKBoundsSources ==
    Fetched =>
        /\ Len(sources_list) <= run_top_k
        /\ \A i \in 1..Len(calls) :
              (calls[i].op = "generar_resumen" /\ run_top_k = 0) => calls[i].sources = <<>>

(* C10: for every raw result that is a sequence of at least top_k          *)
(* mappings, buscar returns exactly top_k records, the i-th made from the  *)
(* i-th raw entry.                                                         *)
C10_FirstTopKMappingsInOrder ==
    (/\ Fetched /\ raw.val.t = "list" /\ top_k >= 0
     /\ Len(raw.val.items) >= top_k
     /\ \A i \in 1..Len(raw.val.items) : raw.val.items[i].x.t = "dict") =>
        /\ Len(sources_list) = top_k
        /\ \A i \in 1..top_k : sources_list[i] = NormalizeMapping(raw.val.items[i].x)

C10_MoreMappingsThanTopK ==
    /\ Fetched /\ raw.val.t = "list" /\ top_k >= 2
    /\ Len(raw.val.items) > top_k
    /\ \A i \in 1..Len(raw.val.items) : raw.val.items[i].x.t = "dict"
    /\ NormalizeMapping(raw.val.items[1].x) # NormalizeMapping(raw.val.items[Len(raw.val.items)].x)
    /\ Len(sources_list) = top_k

=============================================================================
